---------------------------- MODULE Spec2Model ----------------------------
(***************************************************************************)
(* A model of the two MCP adapter services of this repository:             *)
(*   fhir_mcp_server/fhir_server.py  (OAuth2 token cache, request gateway, *)
(*                                    eleven FHIR tools)                   *)
(*   npi_mcp_server/npi_server.py    (five NPI tools)                      *)
(*                                                                         *)
(* A tool invocation is run by a worker.  It blocks on each outbound HTTP  *)
(* call, so an invocation is a short sequence of steps: the call up to the *)
(* first outbound request, one step per response, and the return.  The     *)
(* responses of the remote endpoints are inputs, drawn from small sets.    *)
(*                                                                         *)
(* Python values: a str is a string and the None of an Optional[str] a     *)
(* string no call passes; an Optional[int] is <<>> or <<n>>; a dict is a   *)
(* function on its keys and the None of an optional dict, record or        *)
(* outcome is <<>>; an f-string is a concatenation.                        *)
(***************************************************************************)
EXTENDS Integers, Sequences, FiniteSets, TLC

\* None, where a str is expected
None == "<None>"
\* None, where an int is expected
NoInt == <<>>
\* None, where a dict, a request, an outcome or an envelope is expected
Absent == <<>>

\* Python truthiness of an Optional[str]: None and "" are falsy.
Truthy(s) == s # None /\ s # ""

\* Python truthiness of an Optional[int] (<<>> or <<n>>): None and 0 are falsy.
TruthyInt(c) == c # NoInt /\ c[1] # 0

Min(a, b) == IF a <= b THEN a ELSE b

\* dict assignment d[k] = v
DictSet(d, k, v) == [x \in (DOMAIN d) \cup {k} |-> IF x = k THEN v ELSE d[x]]

\* dict.get(k, default)
DictGet(d, k, default) == IF k \in DOMAIN d THEN d[k] ELSE default

(***************************************************************************)
(* Bounds of the model.                                                    *)
(***************************************************************************)
\* time.time() at the first step of a behaviour
StartTime == 1000
\* the clock advances by one second at a time, at most this far
MaxElapsed == 2

(***************************************************************************)
(* Program constants.                                                      *)
(***************************************************************************)
FHIR_API_BASE_URL == "https://fhir-ehr.cerner.com/r4"
FHIR_TENANT_ID == "ec2458f2-1e24-41c8-b71b-0e701af7583d"
TOKEN_ENDPOINT == "https://authorization.cerner.com/tenants/ec2458f2-1e24-41c8-b71b-0e701af7583d/hosts/fhir-ehr.cerner.com/protocols/oauth2/profiles/smart-v1/token"
NPI_API_BASE_URL == "https://npiregistry.cms.hhs.gov/api/"
\* the 5-minute buffer of the token validity check
TokenBuffer == 300
\* the default of expires_in
DefaultExpiresIn == 3600
\* the cap of _count
MaxCount == 100
\* the timeout of the FHIR and token requests, and of the NPI requests
FhirTimeout == 60
NpiTimeout == 10

(***************************************************************************)
(* base64.b64encode(credentials.encode()).decode()                         *)
(***************************************************************************)
\* str.encode(): the UTF-8 bytes of the strings the model uses
CharCodes(s) ==
    CASE s = "id1" -> <<105, 100, 49>>
      [] s = "ab"  -> <<97, 98>>
      [] s = "s1"  -> <<115, 49>>
      [] s = "s22" -> <<115, 50, 50>>
      [] s = ":"   -> <<58>>
      [] s = ""    -> <<>>

Base64Alphabet ==
    << "A","B","C","D","E","F","G","H","I","J","K","L","M","N","O","P",
       "Q","R","S","T","U","V","W","X","Y","Z","a","b","c","d","e","f",
       "g","h","i","j","k","l","m","n","o","p","q","r","s","t","u","v",
       "w","x","y","z","0","1","2","3","4","5","6","7","8","9","+","/" >>

\* one group of up to three bytes -> four base64 characters, "=" padded
Base64Group(g) ==
    LET b1 == g[1]
        b2 == IF Len(g) >= 2 THEN g[2] ELSE 0
        b3 == IF Len(g) >= 3 THEN g[3] ELSE 0
        n  == b1 * 65536 + b2 * 256 + b3
        c1 == Base64Alphabet[(n \div 262144) + 1]
        c2 == Base64Alphabet[((n \div 4096) % 64) + 1]
        c3 == IF Len(g) >= 2 THEN Base64Alphabet[((n \div 64) % 64) + 1] ELSE "="
        c4 == IF Len(g) >= 3 THEN Base64Alphabet[(n % 64) + 1] ELSE "="
    IN  c1 \o c2 \o c3 \o c4

RECURSIVE b64encode(_)
b64encode(bytes) ==
    IF Len(bytes) = 0 THEN ""
    ELSE IF Len(bytes) <= 3 THEN Base64Group(bytes)
    ELSE Base64Group(SubSeq(bytes, 1, 3)) \o b64encode(SubSeq(bytes, 4, Len(bytes)))

(***************************************************************************)
(* Exceptions: a class and the text str(e) gives.                          *)
(***************************************************************************)
Exc(class, text) == [class |-> class, text |-> text]

\* the classes `except requests.RequestException` catches
RequestExceptionClasses ==
    {"RequestException", "ConnectionError", "Timeout", "requests.JSONDecodeError"}

IsRequestException(e) == e.class \in RequestExceptionClasses

(***************************************************************************)
(* HTTP responses, as the code reads them: status_code, text, and json(),  *)
(* which returns the parsed body or raises.  An outbound call can also     *)
(* raise instead of answering.                                             *)
(***************************************************************************)
Response(status, text, json) ==
    [kind |-> "response", status_code |-> status, text |-> text, json |-> json]

Raises(e) == [kind |-> "raises", exc |-> e]

\* response.json() on a body that is not JSON: requests raises its own
\* JSONDecodeError (a RequestException) or, in older releases, the json
\* module's ValueError
BadJson(class) == [raises |-> Exc(class, "Expecting value: line 1 column 1 (char 0)")]

JsonRaises(j) == DOMAIN j = {"raises"}

Parsed(v) == [value |-> v]

\* a JSON value where the code does arithmetic: a number or a string
JsonNumber(n) == [number |-> n]

JsonString(s) == [string |-> s]

IsJsonNumber(v) == DOMAIN v = {"number"}


(***************************************************************************)
(* The result envelope.                                                    *)
(***************************************************************************)
Success(data, message) == [success |-> TRUE, data |-> data, message |-> message]

Failure(error, message) == [success |-> FALSE, error |-> error, message |-> message]

(***************************************************************************)
(* How a call ends: it returns an envelope or an exception leaves it.      *)
(***************************************************************************)
Return(envelope) == [kind |-> "return", envelope |-> envelope]

Raise(e) == [kind |-> "raise", exc |-> e]

(***************************************************************************)
(* Token manager: get_access_token.  It runs in two parts around its one   *)
(* blocking call, requests.post.                                           *)
(***************************************************************************)
\* the guard of line 44
CredentialsMissing_NoneOnly(client_id, client_secret) ==
    client_id = None \/ client_secret = None

CredentialsMissing(client_id, client_secret) ==
    ~Truthy(client_id) \/ ~Truthy(client_secret)

\* the guard of line 48: the cached token is reused
TokenStillValid_Inclusive(token, expires_at, t) ==
    Truthy(token) /\ t <= expires_at - TokenBuffer

TokenStillValid_Never(token, expires_at, t) == FALSE

TokenStillValid_NoBuffer(token, expires_at, t) == Truthy(token) /\ t < expires_at

TokenStillValid(token, expires_at, t) ==
    Truthy(token) /\ t < expires_at - TokenBuffer

\* the form body of the token request
token_data(client_id, client_secret) ==
    [grant_type |-> "client_credentials",
     scope |-> "system/Patient.rs system/Observation.rs system/Condition.rs system/MedicationRequest.rs"]

\* the value of the Authorization header of the token request
BasicAuthorization(client_id, client_secret) ==
    "Basic " \o b64encode(CharCodes(client_id) \o CharCodes(":") \o CharCodes(client_secret))

\* the arguments of requests.post
TokenRequest(client_id, client_secret) ==
    [method  |-> "POST",
     url     |-> TOKEN_ENDPOINT,
     data    |-> token_data(client_id, client_secret),
     headers |-> [Content_Type  |-> "application/x-www-form-urlencoded",
                  Accept        |-> "application/json",
                  Authorization |-> BasicAuthorization(client_id, client_secret)],
     timeout |-> FhirTimeout]

MissingCredentialsError ==
    Exc("ValueError",
        "FHIR client ID and client secret must be provided via command line arguments")

\* get_access_token, were the cache check to come before the credential
\* check
get_access_token_CacheFirst(client_id, client_secret, token, expires_at, t) ==
    IF TokenStillValid(token, expires_at, t)
    THEN [kind |-> "return", token |-> token]
    ELSE IF CredentialsMissing(client_id, client_secret)
    THEN [kind |-> "raise", exc |-> MissingCredentialsError]
    ELSE [kind |-> "post", request |-> TokenRequest(client_id, client_secret)]

\* get_access_token, were it to return any cached token, however old
get_access_token_AnyCached(client_id, client_secret, token, expires_at, t) ==
    IF CredentialsMissing(client_id, client_secret)
    THEN [kind |-> "raise", exc |-> MissingCredentialsError]
    ELSE IF Truthy(token)
    THEN [kind |-> "return", token |-> token]
    ELSE [kind |-> "post", request |-> TokenRequest(client_id, client_secret)]

\* lines 42-69, up to the call of requests.post: raise, return the cached
\* token, or post
get_access_token(client_id, client_secret, token, expires_at, t) ==
    IF CredentialsMissing(client_id, client_secret)
    THEN [kind |-> "raise", exc |-> MissingCredentialsError]
    ELSE IF TokenStillValid(token, expires_at, t)
    THEN [kind |-> "return", token |-> token]
    ELSE [kind |-> "post", request |-> TokenRequest(client_id, client_secret)]

\* line 79: the error of a status other than 200
TokenStatusError_NoDetail(status, text) ==
    Exc("RequestException", "Token request failed")

TokenStatusError(status, text) ==
    Exc("RequestException",
        "Token request failed: HTTP " \o ToString(status) \o ": " \o text)

\* lines 81-82: a RequestException raised in the try block is wrapped, any
\* other exception passes through
TokenExcept(e) ==
    IF IsRequestException(e)
    THEN Exc("RequestException", "Failed to obtain access token: " \o e.text)
    ELSE e

\* line 75, time.time() + expires_in, when expires_in is a string
ExpiresInTypeError ==
    Exc("TypeError", "unsupported operand type(s) for +: 'float' and 'str'")

\* get_access_token, were it to answer a failed refresh with whatever the
\* cache holds
get_access_token_resume_Swallow(post, token, expires_at, t) ==
    IF post.kind = "response" /\ post.status_code = 200 /\ ~JsonRaises(post.json)
       /\ "access_token" \in DOMAIN post.json.value
    THEN [kind |-> "return", token |-> post.json.value["access_token"],
          cache |-> <<post.json.value["access_token"], t + DefaultExpiresIn>>]
    ELSE [kind |-> "return", token |-> token, cache |-> <<token, expires_at>>]

\* get_access_token, were it to drop the cached token when a refresh fails
get_access_token_resume_ClearOnFailure(post, token, expires_at, t) ==
    IF post.kind = "raises"
    THEN [kind |-> "raise", exc |-> TokenExcept(post.exc), cache |-> <<None, 0>>]
    ELSE IF post.status_code = 200
    THEN IF JsonRaises(post.json)
         THEN [kind |-> "raise", exc |-> TokenExcept(post.json.raises),
               cache |-> <<token, expires_at>>]
         ELSE LET token_response == post.json.value IN
              IF "access_token" \notin DOMAIN token_response
              THEN [kind |-> "raise",
                    exc |-> TokenExcept(Exc("KeyError", "'access_token'")),
                    cache |-> <<token, expires_at>>]
              ELSE LET new_token  == token_response["access_token"]
                       expires_in == DictGet(token_response, "expires_in",
                                             JsonNumber(DefaultExpiresIn))
                   IN  IF IsJsonNumber(expires_in)
                       THEN [kind |-> "return", token |-> new_token,
                             cache |-> <<new_token, t + expires_in.number>>]
                       ELSE [kind |-> "raise", exc |-> TokenExcept(ExpiresInTypeError),
                             cache |-> <<new_token, expires_at>>]
    ELSE [kind |-> "raise",
          exc |-> TokenExcept(TokenStatusError(post.status_code, post.text)),
          cache |-> <<None, 0>>]

\* get_access_token, were it to store expires_in itself as the expiry
get_access_token_resume_RelativeExpiry(post, token, expires_at, t) ==
    LET unchanged == <<token, expires_at>> IN
    IF post.kind = "raises"
    THEN [kind |-> "raise", exc |-> TokenExcept(post.exc), cache |-> unchanged]
    ELSE IF post.status_code = 200
    THEN IF JsonRaises(post.json)
         THEN [kind |-> "raise", exc |-> TokenExcept(post.json.raises), cache |-> unchanged]
         ELSE LET token_response == post.json.value IN
              IF "access_token" \notin DOMAIN token_response
              THEN [kind |-> "raise",
                    exc |-> TokenExcept(Exc("KeyError", "'access_token'")),
                    cache |-> unchanged]
              ELSE LET new_token  == token_response["access_token"]
                       expires_in == DictGet(token_response, "expires_in",
                                             JsonNumber(DefaultExpiresIn))
                   IN  IF IsJsonNumber(expires_in)
                       THEN [kind |-> "return", token |-> new_token,
                             cache |-> <<new_token, expires_in.number>>]
                       ELSE [kind |-> "raise", exc |-> TokenExcept(ExpiresInTypeError),
                             cache |-> <<new_token, expires_at>>]
    ELSE [kind |-> "raise",
          exc |-> TokenExcept(TokenStatusError(post.status_code, post.text)),
          cache |-> unchanged]

\* lines 69-82, from the outcome of requests.post on, at time t, given the
\* cache <<token, expires_at>>: the cache afterwards, and the token returned
\* or the exception raised.  ACCESS_TOKEN is assigned on line 73, before
\* line 75 can raise.
get_access_token_resume(post, token, expires_at, t) ==
    LET unchanged == <<token, expires_at>> IN
    IF post.kind = "raises"
    THEN [kind |-> "raise", exc |-> TokenExcept(post.exc), cache |-> unchanged]
    ELSE IF post.status_code = 200
    THEN IF JsonRaises(post.json)
         THEN [kind |-> "raise", exc |-> TokenExcept(post.json.raises), cache |-> unchanged]
         ELSE LET token_response == post.json.value IN
              IF "access_token" \notin DOMAIN token_response
              THEN [kind |-> "raise",
                    exc |-> TokenExcept(Exc("KeyError", "'access_token'")),
                    cache |-> unchanged]
              ELSE LET new_token  == token_response["access_token"]
                       expires_in == DictGet(token_response, "expires_in",
                                             JsonNumber(DefaultExpiresIn))
                   IN  IF IsJsonNumber(expires_in)
                       THEN [kind |-> "return", token |-> new_token,
                             cache |-> <<new_token, t + expires_in.number>>]
                       ELSE [kind |-> "raise", exc |-> TokenExcept(ExpiresInTypeError),
                             cache |-> <<new_token, expires_at>>]
    ELSE [kind |-> "raise",
          exc |-> TokenExcept(TokenStatusError(post.status_code, post.text)),
          cache |-> unchanged]

\* get_auth_headers
get_auth_headers(access_token) ==
    [Authorization |-> "Bearer " \o access_token,
     Accept        |-> "application/fhir+json",
     Content_Type  |-> "application/fhir+json"]

(***************************************************************************)
(* Request gateway: make_fhir_request(endpoint, params).  `args` is the    *)
(* argument list of the call: <<endpoint>> or <<endpoint, params>>.        *)
(***************************************************************************)
GatewayParams(args) == IF Len(args) >= 2 THEN args[2] ELSE Absent

\* the arguments of requests.get, lines 111-114
ResourceRequest_NoToken(args, access_token) ==
    [method  |-> "GET",
     url     |-> FHIR_API_BASE_URL \o "/" \o FHIR_TENANT_ID \o "/" \o args[1],
     headers |-> get_auth_headers(""),
     params  |-> GatewayParams(args),
     timeout |-> FhirTimeout]

ResourceRequest(args, access_token) ==
    [method  |-> "GET",
     url     |-> FHIR_API_BASE_URL \o "/" \o FHIR_TENANT_ID \o "/" \o args[1],
     headers |-> get_auth_headers(access_token),
     params  |-> GatewayParams(args),
     timeout |-> FhirTimeout]

\* the except clauses, lines 140-151
make_fhir_request_Reraise(e) == Raise(e)

make_fhir_request_NetworkOnly(e) ==
    IF IsRequestException(e)
    THEN Return(Failure(e.text, "Network error occurred while accessing FHIR API"))
    ELSE Raise(e)

make_fhir_request_except(e) ==
    IF IsRequestException(e)
    THEN Return(Failure(e.text, "Network error occurred while accessing FHIR API"))
    ELSE Return(Failure(e.text, "Unexpected error occurred"))

\* the status mapping, lines 116-139
StatusEnvelope_Any2xx(response) ==
    IF response.status_code \in 200..299
    THEN Success(response.json.value, "FHIR data retrieved successfully")
    ELSE Failure("HTTP " \o ToString(response.status_code) \o ": " \o response.text,
                 "Failed to retrieve FHIR data")

StatusEnvelope(response) ==
    IF response.status_code = 200
    THEN Success(response.json.value, "FHIR data retrieved successfully")
    ELSE IF response.status_code = 401
    THEN Failure("Authentication failed. Please check your FHIR client credentials and token.",
                 "Unauthorized access to FHIR API")
    ELSE IF response.status_code = 404
    THEN Failure("Resource not found", "The requested FHIR resource was not found")
    ELSE Failure("HTTP " \o ToString(response.status_code) \o ": " \o response.text,
                 "Failed to retrieve FHIR data")

\* the token cache <<token, expires_at>> after lines 114-151:
\* make_fhir_request assigns neither global, whatever requests.get did
make_fhir_request_cache_DropOn401(get, token, expires_at) ==
    IF get.kind = "response" /\ get.status_code = 401
    THEN <<None, 0>>
    ELSE <<token, expires_at>>

make_fhir_request_cache(get, token, expires_at) == <<token, expires_at>>

\* lines 114-151, from the outcome of requests.get on
make_fhir_request_resume(get) ==
    IF get.kind = "raises"
    THEN make_fhir_request_except(get.exc)
    ELSE IF get.status_code = 200 /\ JsonRaises(get.json)
    THEN make_fhir_request_except(get.json.raises)
    ELSE Return(StatusEnvelope(get))

(***************************************************************************)
(* FHIR tool surface.  A tool either returns an envelope itself or calls   *)
(* make_fhir_request with an argument list and returns what it returns.    *)
(***************************************************************************)
Gateway(args) == [kind |-> "gateway", args |-> args]

\* params = {}
EmptyDict == <<>>

\* min(count, 100), for a truthy count
CappedCount_Uncapped(count) == count[1]

CappedCount(count) == Min(count[1], MaxCount)

\* if count: params["_count"] = min(count, 100)
WithCount(params, count) ==
    IF TruthyInt(count) THEN DictSet(params, "_count", CappedCount(count)) ELSE params

\* if value: params[key] = value
WithFilter(params, key, value) ==
    IF Truthy(value) THEN DictSet(params, key, value) ELSE params

\* `if not params`, the validation of the two searches without a required
\* parameter
NoParams_Never(params) == FALSE

NoParams(params) == params = EmptyDict

get_patient_by_id(patient_id) == Gateway(<<"Patient/" \o patient_id>>)

search_patients_by_name(given_name, family_name, count) ==
    LET params == WithCount(
                    WithFilter(WithFilter(EmptyDict, "given", given_name),
                               "family", family_name),
                    count)
    IN  IF NoParams(params)
        THEN Return(Failure(
                 "At least one search parameter (given_name or family_name) must be provided",
                 "Invalid search parameters"))
        ELSE Gateway(<<"Patient", params>>)

search_patients_by_identifier(identifier_type, identifier_value, count) ==
    Gateway(<<"Patient",
              WithCount([identifier |-> identifier_type \o "|" \o identifier_value], count)>>)

search_patients_by_birthdate(birthdate, count) ==
    Gateway(<<"Patient", WithCount([birthdate |-> birthdate], count)>>)

search_patients_by_phone(phone_number, count) ==
    Gateway(<<"Patient", WithCount([phone |-> phone_number], count)>>)

search_patients_by_email(email, count) ==
    Gateway(<<"Patient", WithCount([email |-> email], count)>>)

search_patients_by_address(postal_code, city, state, count) ==
    LET params == WithCount(
                    WithFilter(
                      WithFilter(WithFilter(EmptyDict, "address-postalcode", postal_code),
                                 "address-city", city),
                      "address-state", state),
                    count)
    IN  IF NoParams(params)
        THEN Return(Failure(
                 "At least one address parameter (postal_code, city, or state) must be provided",
                 "Invalid search parameters"))
        ELSE Gateway(<<"Patient", params>>)

get_patient_observations(patient_id, count) ==
    Gateway(<<"Observation", WithCount([subject |-> "Patient/" \o patient_id], count)>>)

get_patient_conditions_Subject(patient_id, count) ==
    Gateway(<<"Condition", WithCount([subject |-> "Patient/" \o patient_id], count)>>)

get_patient_conditions(patient_id, count) ==
    Gateway(<<"Condition", WithCount([patient |-> "Patient/" \o patient_id], count)>>)

get_patient_medications(patient_id, count) ==
    Gateway(<<"MedicationRequest", WithCount([patient |-> "Patient/" \o patient_id], count)>>)

get_fhir_capabilities == Gateway(<<"metadata">>)

\* a call of a FHIR tool: its name and its keyword arguments
FhirTool(call) ==
    LET a == call.args IN
    CASE call.tool = "get_patient_by_id" -> get_patient_by_id(a.patient_id)
      [] call.tool = "search_patients_by_name" ->
             search_patients_by_name(a.given_name, a.family_name, a.count)
      [] call.tool = "search_patients_by_identifier" ->
             search_patients_by_identifier(a.identifier_type, a.identifier_value, a.count)
      [] call.tool = "search_patients_by_birthdate" ->
             search_patients_by_birthdate(a.birthdate, a.count)
      [] call.tool = "search_patients_by_phone" ->
             search_patients_by_phone(a.phone_number, a.count)
      [] call.tool = "search_patients_by_email" ->
             search_patients_by_email(a.email, a.count)
      [] call.tool = "search_patients_by_address" ->
             search_patients_by_address(a.postal_code, a.city, a.state, a.count)
      [] call.tool = "get_patient_observations" ->
             get_patient_observations(a.patient_id, a.count)
      [] call.tool = "get_patient_conditions" ->
             get_patient_conditions(a.patient_id, a.count)
      [] call.tool = "get_patient_medications" ->
             get_patient_medications(a.patient_id, a.count)
      [] call.tool = "get_fhir_capabilities" -> get_fhir_capabilities

(***************************************************************************)
(* NPI tool surface.  Every tool issues one anonymous GET and maps its     *)
(* outcome itself; there is no shared gateway and no token.                *)
(***************************************************************************)
\* the arguments of requests.get
NpiRequest(url) == [method |-> "GET", url |-> url, timeout |-> NpiTimeout]

\* "&".join([f"{key}={value}" ...]) over the dict in insertion order; the
\* dict is a sequence of <<key, value>>
RECURSIVE JoinParams(_)
JoinParams(items) ==
    IF Len(items) = 0 THEN ""
    ELSE IF Len(items) = 1 THEN items[1][1] \o "=" \o items[1][2]
    ELSE items[1][1] \o "=" \o items[1][2] \o "&" \o JoinParams(Tail(items))

\* if city: params["city"] = city; if state: params["state"] = state
WithLocation(items, city, state) ==
    (IF Truthy(city) THEN items \o << <<"city", city>> >> ELSE items)
        \o (IF Truthy(state) THEN << <<"state", state>> >> ELSE <<>>)

NumberUrl(npi_number) == NPI_API_BASE_URL \o "?number=" \o npi_number \o "&version=2.1"

search_npi_by_number_request(npi_number) == NpiRequest(NumberUrl(npi_number))

search_npi_by_name_request(first_name, last_name, city, state) ==
    NpiRequest(NPI_API_BASE_URL \o "?" \o JoinParams(WithLocation(
        << <<"first_name", first_name>>, <<"last_name", last_name>>, <<"version", "2.1">> >>,
        city, state)))

search_npi_by_taxonomy_request(taxonomy_description, city, state) ==
    NpiRequest(NPI_API_BASE_URL \o "?" \o JoinParams(WithLocation(
        << <<"taxonomy_description", taxonomy_description>>, <<"version", "2.1">> >>,
        city, state)))

search_npi_by_organization_name_request(organization_name, city, state) ==
    NpiRequest(NPI_API_BASE_URL \o "?" \o JoinParams(WithLocation(
        << <<"organization_name", organization_name>>, <<"version", "2.1">> >>,
        city, state)))

get_provider_details_request(npi_number) == NpiRequest(NumberUrl(npi_number))

\* the two except clauses every NPI tool ends with
NpiExcept(e, network_message) ==
    IF IsRequestException(e)
    THEN Failure(e.text, network_message)
    ELSE Failure(e.text, "Unexpected error occurred")

\* the status mapping of the FHIR gateway, copied to the NPI tools
NpiHttpError_NotFound(response, message) ==
    IF response.status_code = 404
    THEN Failure("Resource not found", message)
    ELSE Failure("HTTP " \o ToString(response.status_code) \o ": " \o response.text, message)

NpiHttpError(response, message) ==
    Failure("HTTP " \o ToString(response.status_code) \o ": " \o response.text, message)

\* len(data.get('results', []))
ResultCount(data) == ToString(Len(DictGet(data, "results", <<>>)))

search_npi_by_number_resume(get) ==
    LET net == "Network error occurred while fetching NPI data" IN
    IF get.kind = "raises" THEN NpiExcept(get.exc, net)
    ELSE IF get.status_code = 200
    THEN IF JsonRaises(get.json) THEN NpiExcept(get.json.raises, net)
         ELSE Success(get.json.value, "NPI data retrieved successfully")
    ELSE NpiHttpError(get, "Failed to retrieve NPI data")

search_npi_by_name_resume(get) ==
    LET net == "Network error occurred while searching NPI database" IN
    IF get.kind = "raises" THEN NpiExcept(get.exc, net)
    ELSE IF get.status_code = 200
    THEN IF JsonRaises(get.json) THEN NpiExcept(get.json.raises, net)
         ELSE Success(get.json.value,
                      "Found " \o ResultCount(get.json.value)
                          \o " provider(s) matching search criteria")
    ELSE NpiHttpError(get, "Failed to search NPI database")

search_npi_by_taxonomy_resume(taxonomy_description, get) ==
    LET net == "Network error occurred while searching NPI database" IN
    IF get.kind = "raises" THEN NpiExcept(get.exc, net)
    ELSE IF get.status_code = 200
    THEN IF JsonRaises(get.json) THEN NpiExcept(get.json.raises, net)
         ELSE Success(get.json.value,
                      "Found " \o ResultCount(get.json.value)
                          \o " provider(s) with taxonomy '" \o taxonomy_description \o "'")
    ELSE NpiHttpError(get, "Failed to search NPI database by taxonomy")

search_npi_by_organization_name_resume(organization_name, get) ==
    LET net == "Network error occurred while searching NPI database" IN
    IF get.kind = "raises" THEN NpiExcept(get.exc, net)
    ELSE IF get.status_code = 200
    THEN IF JsonRaises(get.json) THEN NpiExcept(get.json.raises, net)
         ELSE Success(get.json.value,
                      "Found " \o ResultCount(get.json.value)
                          \o " organization(s) matching '" \o organization_name \o "'")
    ELSE NpiHttpError(get, "Failed to search NPI database for organization")

\* the flattened record built from one result, lines 261-279
ProviderDetails(provider) ==
    LET basic == DictGet(provider, "basic", EmptyDict) IN
    [basic_info |->
        [npi               |-> DictGet(provider, "number", None),
         entity_type       |-> DictGet(provider, "enumeration_type", None),
         name              |-> DictGet(basic, "first_name", "") \o " "
                                   \o DictGet(basic, "last_name", ""),
         organization_name |-> DictGet(basic, "organization_name", None),
         credential        |-> DictGet(basic, "credential", None),
         sole_proprietor   |-> DictGet(basic, "sole_proprietor", None),
         gender            |-> DictGet(basic, "gender", None),
         enumeration_date  |-> DictGet(basic, "enumeration_date", None),
         last_updated      |-> DictGet(basic, "last_updated", None),
         certification_date |-> DictGet(basic, "certification_date", None),
         status            |-> DictGet(basic, "status", None)],
     addresses   |-> DictGet(provider, "addresses", <<>>),
     taxonomies  |-> DictGet(provider, "taxonomies", <<>>),
     identifiers |-> DictGet(provider, "identifiers", <<>>),
     other_names |-> DictGet(provider, "other_names", <<>>)]

\* data.get("results") and len(data["results"]) > 0
HasResults(data) == Len(DictGet(data, "results", <<>>)) > 0

get_provider_details_resume_NoEmptyCheck(get) ==
    LET net == "Network error occurred while fetching provider details" IN
    IF get.kind = "raises" THEN NpiExcept(get.exc, net)
    ELSE IF get.status_code = 200
    THEN IF JsonRaises(get.json) THEN NpiExcept(get.json.raises, net)
         ELSE Success(IF HasResults(get.json.value)
                      THEN ProviderDetails(get.json.value["results"][1])
                      ELSE ProviderDetails(EmptyDict),
                      "Provider details retrieved successfully")
    ELSE NpiHttpError(get, "Failed to retrieve provider details")

get_provider_details_resume_LastResult(get) ==
    LET net == "Network error occurred while fetching provider details" IN
    IF get.kind = "raises" THEN NpiExcept(get.exc, net)
    ELSE IF get.status_code = 200
    THEN IF JsonRaises(get.json) THEN NpiExcept(get.json.raises, net)
         ELSE IF HasResults(get.json.value)
         THEN Success(ProviderDetails(
                          get.json.value["results"][Len(get.json.value["results"])]),
                      "Provider details retrieved successfully")
         ELSE Failure("No provider found with the given NPI number", "Provider not found")
    ELSE NpiHttpError(get, "Failed to retrieve provider details")

get_provider_details_resume(get) ==
    LET net == "Network error occurred while fetching provider details" IN
    IF get.kind = "raises" THEN NpiExcept(get.exc, net)
    ELSE IF get.status_code = 200
    THEN IF JsonRaises(get.json) THEN NpiExcept(get.json.raises, net)
         ELSE IF HasResults(get.json.value)
         THEN Success(ProviderDetails(get.json.value["results"][1]),
                      "Provider details retrieved successfully")
         ELSE Failure("No provider found with the given NPI number", "Provider not found")
    ELSE NpiHttpError(get, "Failed to retrieve provider details")

\* a call of an NPI tool: the request it issues
NpiToolRequest(call) ==
    LET a == call.args IN
    CASE call.tool = "search_npi_by_number" -> search_npi_by_number_request(a.npi_number)
      [] call.tool = "search_npi_by_name" ->
             search_npi_by_name_request(a.first_name, a.last_name, a.city, a.state)
      [] call.tool = "search_npi_by_taxonomy" ->
             search_npi_by_taxonomy_request(a.taxonomy_description, a.city, a.state)
      [] call.tool = "search_npi_by_organization_name" ->
             search_npi_by_organization_name_request(a.organization_name, a.city, a.state)
      [] call.tool = "get_provider_details" -> get_provider_details_request(a.npi_number)

\* a call of an NPI tool: the envelope it returns for the outcome of its GET
NpiToolResume(call, get) ==
    LET a == call.args IN
    CASE call.tool = "search_npi_by_number" -> search_npi_by_number_resume(get)
      [] call.tool = "search_npi_by_name" -> search_npi_by_name_resume(get)
      [] call.tool = "search_npi_by_taxonomy" ->
             search_npi_by_taxonomy_resume(a.taxonomy_description, get)
      [] call.tool = "search_npi_by_organization_name" ->
             search_npi_by_organization_name_resume(a.organization_name, get)
      [] call.tool = "get_provider_details" -> get_provider_details_resume(get)

(***************************************************************************)
(* Inputs: the configurations, the calls and the answers of the remote     *)
(* endpoints.                                                              *)
(***************************************************************************)
\* <<client id, client secret>> as main() can set them
CredentialConfigs ==
    { <<"id1", "s22">>, <<"ab", "s1">>, <<"id1", "s1">>,
      <<None, "s1">>, <<"", "s1">>, <<"id1", None>>, <<"id1", "">> }

Counts == {NoInt, <<0>>, <<50>>, <<101>>, <<150>>}

FhirCalls ==
    {[tool |-> "get_patient_by_id", args |-> [patient_id |-> "123"]]}
    \cup {[tool |-> "search_patients_by_name",
           args |-> [given_name |-> g, family_name |-> f, count |-> c]] :
             g \in {None, "", "John"}, f \in {None, "Doe"}, c \in Counts}
    \cup {[tool |-> "search_patients_by_identifier",
           args |-> [identifier_type |-> "MR", identifier_value |-> "12345", count |-> c]] :
             c \in Counts}
    \cup {[tool |-> "search_patients_by_birthdate",
           args |-> [birthdate |-> "1990-01-01", count |-> c]] : c \in Counts}
    \cup {[tool |-> "search_patients_by_phone",
           args |-> [phone_number |-> "555-1234", count |-> c]] : c \in Counts}
    \cup {[tool |-> "search_patients_by_email",
           args |-> [email |-> "a@b.c", count |-> c]] : c \in Counts}
    \cup {[tool |-> "search_patients_by_address",
           args |-> [postal_code |-> z, city |-> t, state |-> st, count |-> c]] :
             z \in {None, "12345"}, t \in {None, "Town"}, st \in {None, "MO"},
             c \in Counts}
    \cup {[tool |-> "get_patient_observations",
           args |-> [patient_id |-> "123", count |-> c]] : c \in Counts}
    \cup {[tool |-> "get_patient_conditions",
           args |-> [patient_id |-> "123", count |-> c]] : c \in Counts}
    \cup {[tool |-> "get_patient_medications",
           args |-> [patient_id |-> "123", count |-> c]] : c \in Counts}
    \cup {[tool |-> "get_fhir_capabilities", args |-> EmptyDict]}

FhirTools == {c.tool : c \in FhirCalls}

TransportErrors ==
    { Exc("ConnectionError", "Connection refused"), Exc("Timeout", "Read timed out") }

JsonErrorClasses == {"requests.JSONDecodeError", "json.JSONDecodeError"}

\* JSON bodies of the token endpoint: a short-lived token, one that lives a
\* second longer than the buffer, one without expires_in, one whose
\* expires_in is a string, and an error body
TokenJsons ==
    {[access_token |-> "tokA", expires_in |-> JsonNumber(TokenBuffer),
      token_type |-> "Bearer"],
     [access_token |-> "tokB", expires_in |-> JsonNumber(TokenBuffer + 1),
      token_type |-> "Bearer"],
     [access_token |-> "tokC", token_type |-> "Bearer"],
     [access_token |-> "tokD", expires_in |-> JsonString("3600"), token_type |-> "Bearer"],
     [error |-> "invalid_client"]}

\* what requests.post to the token endpoint can do
TokenOutcomes ==
    {Response(200, "{...}", Parsed(j)) : j \in TokenJsons}
    \cup {Response(200, "<html>", BadJson(c)) : c \in JsonErrorClasses}
    \cup {Response(201, "{...}", Parsed([access_token |-> "tokA", token_type |-> "Bearer"])),
          Response(401, "Unauthorized", Parsed([error |-> "invalid_client"])),
          Response(500, "Server Error", BadJson("json.JSONDecodeError"))}
    \cup {Raises(e) : e \in TransportErrors}

\* what requests.get to the FHIR resource endpoint can do
ResourceOutcomes ==
    {Response(200, "{...}", Parsed([resourceType |-> "Bundle"]))}
    \cup {Response(200, "<html>", BadJson(c)) : c \in JsonErrorClasses}
    \cup {Response(201, "Created", Parsed([resourceType |-> "Bundle"])),
          Response(401, "Unauthorized", Parsed([resourceType |-> "OperationOutcome"])),
          Response(404, "Not Found", Parsed([resourceType |-> "OperationOutcome"])),
          Response(500, "Server Error", BadJson("json.JSONDecodeError"))}
    \cup {Raises(e) : e \in TransportErrors}

NpiCalls ==
    {[tool |-> "search_npi_by_number", args |-> [npi_number |-> "1234567890"]],
     [tool |-> "get_provider_details", args |-> [npi_number |-> "1234567890"]]}
    \cup {[tool |-> "search_npi_by_name",
           args |-> [first_name |-> "John", last_name |-> "Smith", city |-> t, state |-> st]] :
             t \in {None, "Town"}, st \in {None, "", "MO"}}
    \cup {[tool |-> "search_npi_by_taxonomy",
           args |-> [taxonomy_description |-> "Cardiology", city |-> t, state |-> None]] :
             t \in {None, "Town"}}
    \cup {[tool |-> "search_npi_by_organization_name",
           args |-> [organization_name |-> "Clinic", city |-> None, state |-> st]] :
             st \in {None, "MO"}}

NpiTools == {c.tool : c \in NpiCalls}

Individual ==
    [number |-> "1234567890", enumeration_type |-> "NPI-1",
     basic |-> [first_name |-> "John", last_name |-> "Smith", credential |-> "MD",
                status |-> "A"],
     addresses |-> <<"123 Main St">>, taxonomies |-> <<"Cardiology">>]

Organization ==
    [number |-> "1987654321", enumeration_type |-> "NPI-2",
     basic |-> [organization_name |-> "Clinic", status |-> "A"],
     addresses |-> <<"1 Clinic Rd">>, taxonomies |-> <<>>,
     identifiers |-> <<"MEDICAID 77">>, other_names |-> <<"The Clinic">>]

\* JSON bodies of the NPI registry
NpiJsons ==
    {[result_count |-> 0, results |-> <<>>],
     [Errors |-> <<"No valid search criteria">>],
     [result_count |-> 1, results |-> <<Individual>>],
     [result_count |-> 2, results |-> <<Organization, Individual>>],
     [result_count |-> 1, results |-> <<[number |-> "1111111111"]>>]}

\* what requests.get to the NPI registry can do
NpiOutcomes ==
    {Response(200, "{...}", Parsed(j)) : j \in NpiJsons}
    \cup {Response(200, "<html>", BadJson(c)) : c \in JsonErrorClasses}
    \cup {Response(404, "Not Found", BadJson("json.JSONDecodeError")),
          Response(500, "Server Error", BadJson("json.JSONDecodeError"))}
    \cup {Raises(e) : e \in TransportErrors}

(***************************************************************************)
(* State.                                                                  *)
(***************************************************************************)
\* the workers of the host; a serial host runs every invocation on the first
Workers == {1, 2}
SerialWorkers == {1}

VARIABLES
    FHIR_CLIENT_ID,      \* module global, set by main()
    FHIR_CLIENT_SECRET,  \* module global, set by main()
    ACCESS_TOKEN,        \* module global: the cached token, or None
    TOKEN_EXPIRES_AT,    \* module global: the expiry of the cached token
    now,                 \* time.time()
    pc,                  \* per worker: where its invocation is
    call,                \* per worker: the tool called and its arguments
    gateway,             \* per worker: the arguments make_fhir_request got
    http,                \* per worker: the requests the invocation has issued
    answers,             \* per worker: what each of these requests ended with
    token_result,        \* per worker: how get_access_token ended
    result,              \* per worker: how the tool ended
    refresh_failed,      \* history: the last answered token POST was rejected
                         \* (a status other than 200) or raised in transport
    rejected_bearer      \* history: the Authorization header of the last
                         \* resource GET answered with a status other than
                         \* 200 since the cache was last written, or None

vars == <<FHIR_CLIENT_ID, FHIR_CLIENT_SECRET, ACCESS_TOKEN, TOKEN_EXPIRES_AT, now,
          pc, call, gateway, http, answers, token_result, result,
          refresh_failed, rejected_bearer>>

cache == <<ACCESS_TOKEN, TOKEN_EXPIRES_AT>>
config == <<FHIR_CLIENT_ID, FHIR_CLIENT_SECRET>>
invocation == <<pc, call, gateway, http, answers, token_result, result>>
history == <<refresh_failed, rejected_bearer>>

Init ==
    /\ FHIR_CLIENT_ID = None
    /\ FHIR_CLIENT_SECRET = None
    /\ ACCESS_TOKEN = None
    /\ TOKEN_EXPIRES_AT = 0
    /\ now = StartTime
    /\ pc = [w \in Workers |-> "idle"]
    /\ call = [w \in Workers |-> Absent]
    /\ gateway = [w \in Workers |-> Absent]
    /\ http = [w \in Workers |-> <<>>]
    /\ answers = [w \in Workers |-> <<>>]
    /\ token_result = [w \in Workers |-> Absent]
    /\ result = [w \in Workers |-> Absent]
    /\ refresh_failed = FALSE
    /\ rejected_bearer = None

(***************************************************************************)
(* Actions.                                                                *)
(***************************************************************************)
Idle == \A w \in Workers : pc[w] = "idle"

\* main(): the credentials of the command line become the module globals
main(client_id, client_secret) ==
    /\ Idle
    /\ <<client_id, client_secret>> # config
    /\ FHIR_CLIENT_ID' = client_id
    /\ FHIR_CLIENT_SECRET' = client_secret
    /\ UNCHANGED <<cache, now, invocation, history>>

\* the clock
Tick ==
    /\ now < StartTime + MaxElapsed
    /\ now' = now + 1
    /\ UNCHANGED <<config, cache, invocation, history>>

\* A FHIR tool is called: the tool's own code, then make_fhir_request up to
\* its first outbound request (get_auth_headers, get_access_token up to
\* requests.post, or requests.get when the cached token is reused).
CallFhir(w, c) ==
    /\ pc[w] = "idle"
    /\ call' = [call EXCEPT ![w] = c]
    /\ LET tool == FhirTool(c) IN
       IF tool.kind = "return"
       THEN /\ result' = [result EXCEPT ![w] = Return(tool.envelope)]
            /\ pc' = [pc EXCEPT ![w] = "done"]
            /\ UNCHANGED <<gateway, http, token_result>>
       ELSE LET tok == get_access_token(FHIR_CLIENT_ID, FHIR_CLIENT_SECRET,
                                        ACCESS_TOKEN, TOKEN_EXPIRES_AT, now)
            IN  /\ gateway' = [gateway EXCEPT ![w] = tool.args]
                /\ CASE tok.kind = "raise" ->
                          /\ token_result' = [token_result EXCEPT ![w] = Raise(tok.exc)]
                          /\ result' = [result EXCEPT ![w] = make_fhir_request_except(tok.exc)]
                          /\ pc' = [pc EXCEPT ![w] = "done"]
                          /\ UNCHANGED http
                     [] tok.kind = "return" ->
                          /\ token_result' = [token_result EXCEPT
                                                ![w] = [kind |-> "return", token |-> tok.token]]
                          /\ http' = [http EXCEPT
                                        ![w] = <<ResourceRequest(tool.args, tok.token)>>]
                          /\ pc' = [pc EXCEPT ![w] = "await_get"]
                          /\ UNCHANGED result
                     [] tok.kind = "post" ->
                          /\ http' = [http EXCEPT ![w] = <<tok.request>>]
                          /\ pc' = [pc EXCEPT ![w] = "await_token"]
                          /\ UNCHANGED <<token_result, result>>
    /\ UNCHANGED <<config, cache, now, answers, history>>

\* requests.post to the token endpoint ends: the rest of get_access_token,
\* then make_fhir_request up to requests.get, or its except clauses
TokenResponse(w, post) ==
    /\ pc[w] = "await_token"
    /\ answers' = [answers EXCEPT ![w] = Append(@, post)]
    /\ LET res == get_access_token_resume(post, ACCESS_TOKEN, TOKEN_EXPIRES_AT, now) IN
       /\ ACCESS_TOKEN' = res.cache[1]
       /\ TOKEN_EXPIRES_AT' = res.cache[2]
       /\ IF res.kind = "return"
          THEN /\ token_result' = [token_result EXCEPT
                                     ![w] = [kind |-> "return", token |-> res.token]]
               /\ http' = [http EXCEPT
                             ![w] = Append(@, ResourceRequest(gateway[w], res.token))]
               /\ pc' = [pc EXCEPT ![w] = "await_get"]
               /\ UNCHANGED result
          ELSE /\ token_result' = [token_result EXCEPT ![w] = Raise(res.exc)]
               /\ result' = [result EXCEPT ![w] = make_fhir_request_except(res.exc)]
               /\ pc' = [pc EXCEPT ![w] = "done"]
               /\ UNCHANGED http
       /\ refresh_failed' = (post.kind = "raises" \/ post.status_code # 200)
       /\ rejected_bearer' = IF res.cache = cache THEN rejected_bearer ELSE None
    /\ UNCHANGED <<config, now, call, gateway>>

\* requests.get to the resource endpoint ends: the rest of make_fhir_request
ResourceResponse(w, get) ==
    /\ pc[w] = "await_get"
    /\ answers' = [answers EXCEPT ![w] = Append(@, get)]
    /\ result' = [result EXCEPT ![w] = make_fhir_request_resume(get)]
    /\ pc' = [pc EXCEPT ![w] = "done"]
    /\ rejected_bearer' = IF get.kind = "response" /\ get.status_code # 200
                          THEN http[w][Len(http[w])].headers.Authorization
                          ELSE rejected_bearer
    /\ ACCESS_TOKEN' = make_fhir_request_cache(get, ACCESS_TOKEN, TOKEN_EXPIRES_AT)[1]
    /\ TOKEN_EXPIRES_AT' = make_fhir_request_cache(get, ACCESS_TOKEN, TOKEN_EXPIRES_AT)[2]
    /\ UNCHANGED <<config, now, call, gateway, http, token_result, refresh_failed>>

\* An NPI tool is called: up to its requests.get
CallNpi(w, c) ==
    /\ pc[w] = "idle"
    /\ call' = [call EXCEPT ![w] = c]
    /\ http' = [http EXCEPT ![w] = <<NpiToolRequest(c)>>]
    /\ pc' = [pc EXCEPT ![w] = "await_npi"]
    /\ UNCHANGED <<config, cache, now, gateway, answers, token_result, result, history>>

\* requests.get to the NPI registry ends: the rest of the tool
NpiResponse(w, get) ==
    /\ pc[w] = "await_npi"
    /\ answers' = [answers EXCEPT ![w] = Append(@, get)]
    /\ result' = [result EXCEPT ![w] = Return(NpiToolResume(call[w], get))]
    /\ pc' = [pc EXCEPT ![w] = "done"]
    /\ UNCHANGED <<config, cache, now, call, gateway, http, token_result, history>>

\* the host takes the outcome; the worker is free again
Finish(w) ==
    /\ pc[w] = "done"
    /\ pc' = [pc EXCEPT ![w] = "idle"]
    /\ call' = [call EXCEPT ![w] = Absent]
    /\ gateway' = [gateway EXCEPT ![w] = Absent]
    /\ http' = [http EXCEPT ![w] = <<>>]
    /\ answers' = [answers EXCEPT ![w] = <<>>]
    /\ token_result' = [token_result EXCEPT ![w] = Absent]
    /\ result' = [result EXCEPT ![w] = Absent]
    /\ UNCHANGED <<config, cache, now, history>>

Configure == \E cfg \in CredentialConfigs : main(cfg[1], cfg[2])

FhirCall == \E w \in SerialWorkers : \E c \in FhirCalls : CallFhir(w, c)

TokenAnswer == \E w \in SerialWorkers : \E r \in TokenOutcomes : TokenResponse(w, r)

ResourceAnswer == \E w \in SerialWorkers : \E r \in ResourceOutcomes : ResourceResponse(w, r)

NpiCall == \E w \in SerialWorkers : \E c \in NpiCalls : CallNpi(w, c)

NpiAnswer == \E w \in SerialWorkers : \E r \in NpiOutcomes : NpiResponse(w, r)

Finished == \E w \in SerialWorkers : Finish(w)

\* a host that serves one invocation at a time
Next ==
    \/ Configure
    \/ Tick
    \/ FhirCall
    \/ TokenAnswer
    \/ ResourceAnswer
    \/ NpiCall
    \/ NpiAnswer
    \/ Finished

Spec == Init /\ [][Next]_vars

(***************************************************************************)
(* A host that dispatches tool invocations concurrently: every worker runs *)
(* an invocation of its own, and the steps of the workers interleave at    *)
(* the blocking HTTP calls.  The module globals are shared; nothing in the *)
(* code locks them.                                                        *)
(***************************************************************************)
ConcurrentConfigs == { <<"id1", "s22">>, <<"id1", "">> }

ConcurrentCalls ==
    {[tool |-> "get_patient_by_id", args |-> [patient_id |-> "123"]],
     [tool |-> "get_fhir_capabilities", args |-> EmptyDict]}

ConcurrentTokenOutcomes ==
    {Response(200, "{...}", Parsed(j)) :
        j \in {[access_token |-> "tokA", expires_in |-> JsonNumber(TokenBuffer),
                token_type |-> "Bearer"],
               [access_token |-> "tokB", expires_in |-> JsonNumber(TokenBuffer + 1),
                token_type |-> "Bearer"]}}
    \cup {Response(401, "Unauthorized", Parsed([error |-> "invalid_client"])),
          Raises(Exc("Timeout", "Read timed out"))}

ConcurrentResourceOutcomes ==
    {Response(200, "{...}", Parsed([resourceType |-> "Bundle"])),
     Response(401, "Unauthorized", Parsed([resourceType |-> "OperationOutcome"]))}

ConcurrentConfigure == \E cfg \in ConcurrentConfigs : main(cfg[1], cfg[2])

ConcurrentFhirCall == \E w \in Workers : \E c \in ConcurrentCalls : CallFhir(w, c)

ConcurrentTokenAnswer ==
    \E w \in Workers : \E r \in ConcurrentTokenOutcomes : TokenResponse(w, r)

ConcurrentResourceAnswer ==
    \E w \in Workers : \E r \in ConcurrentResourceOutcomes : ResourceResponse(w, r)

ConcurrentFinished == \E w \in Workers : Finish(w)

ConcurrentNext ==
    \/ ConcurrentConfigure
    \/ Tick
    \/ ConcurrentFhirCall
    \/ ConcurrentTokenAnswer
    \/ ConcurrentResourceAnswer
    \/ ConcurrentFinished

ConcurrentSpec == Init /\ [][ConcurrentNext]_vars

(***************************************************************************)
(* A serial host whose token endpoint hands out tokens of every lifetime   *)
(* around the 300 s buffer: none, a second below, the buffer itself, a     *)
(* second above.  Each token names its lifetime.                           *)
(***************************************************************************)
LifetimeTokenJsons ==
    {[access_token |-> "tok0", expires_in |-> JsonNumber(0), token_type |-> "Bearer"],
     [access_token |-> "tok299", expires_in |-> JsonNumber(TokenBuffer - 1),
      token_type |-> "Bearer"],
     [access_token |-> "tok300", expires_in |-> JsonNumber(TokenBuffer),
      token_type |-> "Bearer"],
     [access_token |-> "tok301", expires_in |-> JsonNumber(TokenBuffer + 1),
      token_type |-> "Bearer"]}

LifetimeTokenOutcomes ==
    {Response(200, "{...}", Parsed(j)) : j \in LifetimeTokenJsons}
    \cup {Response(401, "Unauthorized", Parsed([error |-> "invalid_client"]))}

LifetimeConfigure == \E cfg \in ConcurrentConfigs : main(cfg[1], cfg[2])

LifetimeFhirCall == \E w \in SerialWorkers : \E c \in ConcurrentCalls : CallFhir(w, c)

LifetimeTokenAnswer ==
    \E w \in SerialWorkers : \E r \in LifetimeTokenOutcomes : TokenResponse(w, r)

LifetimeResourceAnswer ==
    \E w \in SerialWorkers : \E r \in ConcurrentResourceOutcomes : ResourceResponse(w, r)

LifetimeNext ==
    \/ LifetimeConfigure
    \/ Tick
    \/ LifetimeFhirCall
    \/ LifetimeTokenAnswer
    \/ LifetimeResourceAnswer
    \/ Finished

LifetimeSpec == Init /\ [][LifetimeNext]_vars

(***************************************************************************)
(* Properties.                                                             *)
(***************************************************************************)
IsFhirCall(w) == call[w] # Absent /\ call[w].tool \in FhirTools

IsNpiCall(w) == call[w] # Absent /\ call[w].tool \in NpiTools

Posts(requests) == {i \in DOMAIN requests : requests[i].method = "POST"}

Gets(requests) == {i \in DOMAIN requests : requests[i].method = "GET"}

\* the step in which worker w calls a FHIR tool that reaches
\* make_fhir_request, and with it get_access_token
CallsGetAccessToken(w) ==
    pc[w] = "idle" /\ pc'[w] # "idle" /\ gateway'[w] # Absent

\* the shape of the result envelope
IsEnvelope(e) ==
    /\ "success" \in DOMAIN e
    /\ e.success \in BOOLEAN
    /\ e.success => "data" \in DOMAIN e
    /\ ~e.success => {"error", "message"} \subseteq DOMAIN e

\* C1: every invocation of every FHIR and NPI tool, whatever the outbound
\* calls do (200, another status, a transport exception, another exception,
\* missing credentials, a rejected token request), ends by returning one
\* envelope: a boolean success, data when it is true, error and message
\* when it is false; there is no outcome before the end and no end without
\* an envelope.
C1_EveryToolReturnsOneEnvelope ==
    \A w \in Workers :
        /\ pc[w] = "done" =>
              /\ result[w] # Absent
              /\ result[w].kind = "return"
              /\ IsEnvelope(result[w].envelope)
        /\ pc[w] # "done" => result[w] = Absent

\* a FHIR tool has ended after the token endpoint rejected the token request
C1_Witness ==
    /\ pc[1] = "done"
    /\ IsFhirCall(1)
    /\ Len(answers[1]) = 1
    /\ answers[1][1].kind = "response"
    /\ answers[1][1].status_code = 401
    /\ result[1].kind = "return"
    /\ ~result[1].envelope.success

\* C2: whenever the credentials are configured, a token is cached and
\* now < TOKEN_EXPIRES_AT - 300, get_access_token returns the cached token,
\* leaves the cache as it is and issues no request to the token endpoint:
\* the only request of the step is the resource GET, sent with that token.
\* It holds of every such call, so of any number of consecutive ones.
C2_TokenReuse ==
    [][\A w \in Workers :
         ( /\ CallsGetAccessToken(w)
           /\ Truthy(FHIR_CLIENT_ID) /\ Truthy(FHIR_CLIENT_SECRET)
           /\ Truthy(ACCESS_TOKEN)
           /\ now < TOKEN_EXPIRES_AT - 300 )
         => /\ token_result'[w] = [kind |-> "return", token |-> ACCESS_TOKEN]
            /\ ACCESS_TOKEN' = ACCESS_TOKEN
            /\ TOKEN_EXPIRES_AT' = TOKEN_EXPIRES_AT
            /\ Posts(http'[w]) = {}
            /\ Len(http'[w]) = 1
            /\ http'[w][1].headers.Authorization = "Bearer " \o ACCESS_TOKEN
            /\ pc'[w] = "await_get"]_vars

\* a call is waiting for its resource GET, having posted nothing, while the
\* cached token is still valid
C2_Witness ==
    /\ pc[1] = "await_get"
    /\ Posts(http[1]) = {}
    /\ token_result[1] = [kind |-> "return", token |-> ACCESS_TOKEN]
    /\ now < TOKEN_EXPIRES_AT - 300

\* base64 of "id:secret" for the configurations of the model, from RFC 4648
KnownBasic(client_id, client_secret) ==
    CASE <<client_id, client_secret>> = <<"id1", "s22">> -> "Basic aWQxOnMyMg=="
      [] <<client_id, client_secret>> = <<"ab", "s1">>   -> "Basic YWI6czE="
      [] <<client_id, client_secret>> = <<"id1", "s1">>  -> "Basic aWQxOnMx"

\* C3: whenever the credentials are configured and no token is cached or
\* now >= TOKEN_EXPIRES_AT - 300 (the boundary included), a call of
\* get_access_token issues one POST to the token endpoint, with the header
\* Authorization: Basic base64(id:secret) and a body of grant_type =
\* client_credentials and the scope, without the client id or secret; and
\* no invocation ever issues a second POST.
C3_TokenRefresh ==
    [][\A w \in Workers :
         /\ ( /\ CallsGetAccessToken(w)
              /\ Truthy(FHIR_CLIENT_ID) /\ Truthy(FHIR_CLIENT_SECRET)
              /\ (~Truthy(ACCESS_TOKEN) \/ now >= TOKEN_EXPIRES_AT - 300) )
            => /\ Len(http'[w]) = 1
               /\ pc'[w] = "await_token"
               /\ LET post == http'[w][1] IN
                  /\ post.method = "POST"
                  /\ post.url = TOKEN_ENDPOINT
                  /\ post.headers.Authorization
                        = KnownBasic(FHIR_CLIENT_ID, FHIR_CLIENT_SECRET)
                  /\ DOMAIN post.data = {"grant_type", "scope"}
                  /\ post.data.grant_type = "client_credentials"
                  /\ post.data.scope = "system/Patient.rs system/Observation.rs system/Condition.rs system/MedicationRequest.rs"
                  /\ \A k \in DOMAIN post.data :
                        post.data[k] \notin {FHIR_CLIENT_ID, FHIR_CLIENT_SECRET}
         /\ Cardinality(Posts(http'[w])) <= 1]_vars

\* a POST is out for a call made at the boundary now = TOKEN_EXPIRES_AT - 300
\* with a token in the cache
C3_Witness ==
    /\ pc[1] = "await_token"
    /\ Truthy(ACCESS_TOKEN)
    /\ now = TOKEN_EXPIRES_AT - 300
    /\ Cardinality(Posts(http[1])) = 1

\* the call of worker w has a count argument
TakesCount(w) == IsFhirCall(w) /\ "count" \in DOMAIN call[w].args

\* C4: for every FHIR tool that takes count, the _count handed to the
\* gateway (and sent with the GET) is never above 100: it is min(count, 100)
\* when count is given and not 0, and the key is absent when count is None
\* or 0.
C4_CountCapped ==
    \A w \in Workers :
        (TakesCount(w) /\ gateway[w] # Absent) =>
            LET count  == call[w].args.count
                params == gateway[w][2]
            IN  /\ (count # NoInt /\ count[1] # 0) =>
                      /\ "_count" \in DOMAIN params
                      /\ params["_count"] <= 100
                      /\ params["_count"] = (IF count[1] < 100 THEN count[1] ELSE 100)
                /\ (count = NoInt \/ count[1] = 0) => "_count" \notin DOMAIN params
                /\ \A i \in Gets(http[w]) : http[w][i].params = params

\* a search called with count = 150 is on its way with _count = 100
C4_Witness ==
    /\ pc[1] = "await_get"
    /\ TakesCount(1)
    /\ call[1].args.count = <<150>>
    /\ http[1][Len(http[1])].params["_count"] = 100

NameSearchNoArguments ==
    [tool |-> "search_patients_by_name",
     args |-> [given_name |-> None, family_name |-> None, count |-> NoInt]]

AddressSearchNoArguments ==
    [tool |-> "search_patients_by_address",
     args |-> [postal_code |-> None, city |-> None, state |-> None, count |-> NoInt]]

ValidationFailure(outcome) ==
    /\ outcome # Absent
    /\ outcome.kind = "return"
    /\ ~outcome.envelope.success
    /\ outcome.envelope.message = "Invalid search parameters"

\* C5: search_patients_by_name and search_patients_by_address called with
\* no arguments return a Failure envelope with the message "Invalid search
\* parameters" in the step of the call, issue no HTTP request (no token POST,
\* no resource GET) and leave the token cache as it is.
C5_ValidationShortCircuit ==
    [][\A w \in Workers :
         ( /\ pc[w] = "idle"
           /\ call'[w] \in {NameSearchNoArguments, AddressSearchNoArguments} )
         => /\ pc'[w] = "done"
            /\ ValidationFailure(result'[w])
            /\ http'[w] = <<>>
            /\ gateway'[w] = Absent
            /\ token_result'[w] = Absent
            /\ ACCESS_TOKEN' = ACCESS_TOKEN
            /\ TOKEN_EXPIRES_AT' = TOKEN_EXPIRES_AT]_vars

\* the address search without arguments has failed locally, while the
\* configured credentials and an empty cache would have made a call post
C5_Witness ==
    /\ pc[1] = "done"
    /\ call[1] = AddressSearchNoArguments
    /\ ValidationFailure(result[1])
    /\ http[1] = <<>>
    /\ Truthy(FHIR_CLIENT_ID) /\ Truthy(FHIR_CLIENT_SECRET)
    /\ ~Truthy(ACCESS_TOKEN)

Falsy(s) == s \in {None, ""}

\* the call of worker w is a name or address search with no filter at all
ZeroFilters(w) ==
    /\ call[w] # Absent
    /\ \/ /\ call[w].tool = "search_patients_by_name"
          /\ Falsy(call[w].args.given_name)
          /\ Falsy(call[w].args.family_name)
       \/ /\ call[w].tool = "search_patients_by_address"
          /\ Falsy(call[w].args.postal_code)
          /\ Falsy(call[w].args.city)
          /\ Falsy(call[w].args.state)

\* C6: a name search without given_name and family_name, or an address
\* search without postal_code, city and state, fails locally with the
\* validation Failure envelope and makes no network call, also when a
\* non-zero count is passed.
C6_ZeroFiltersFailLocally ==
    \A w \in Workers :
        ZeroFilters(w) =>
            /\ http[w] = <<>>
            /\ pc[w] = "done" => ValidationFailure(result[w])

\* worker w's FHIR call has ended, a token was obtained, and the resource
\* endpoint answered the GET with an HTTP response
ResourceAnswered(w) ==
    /\ pc[w] = "done"
    /\ IsFhirCall(w)
    /\ token_result[w] # Absent
    /\ token_result[w].kind = "return"
    /\ answers[w][Len(answers[w])].kind = "response"

ResourceAnswerOf(w) == answers[w][Len(answers[w])]

\* the rows of the status table for the statuses other than 200
NonOkStatusMapped(w) ==
    LET response == ResourceAnswerOf(w)
        status   == response.status_code
        envelope == result[w].envelope
    IN  /\ status = 401 =>
              /\ ~envelope.success
              /\ envelope.message = "Unauthorized access to FHIR API"
        /\ status = 404 =>
              /\ ~envelope.success
              /\ envelope.error = "Resource not found"
        /\ status \notin {200, 401, 404} =>
              /\ ~envelope.success
              /\ envelope.error = "HTTP " \o ToString(status) \o ": " \o response.text
              /\ envelope.message = "Failed to retrieve FHIR data"
        /\ (status = 500 /\ response.text = "Server Error") =>
              envelope.error = "HTTP 500: Server Error"

\* C7 as claimed: given a token, the status of the resource endpoint alone
\* decides the envelope, and 200 gives Success with data = the parsed body.
C7_StatusMappingAsClaimed ==
    \A w \in Workers :
        ResourceAnswered(w) =>
            /\ result[w].kind = "return"
            /\ ResourceAnswerOf(w).status_code = 200 =>
                  /\ result[w].envelope.success
                  /\ ~JsonRaises(ResourceAnswerOf(w).json)
                  /\ result[w].envelope.data = ResourceAnswerOf(w).json.value
            /\ NonOkStatusMapped(w)

\* C7, amended: given a token, a 200 whose body parses as JSON gives Success
\* with data = the parsed body, a 200 whose body does not parse gives a
\* Failure whose error is the text of the parse error; 401 gives Failure
\* with message "Unauthorized access to FHIR API"; 404 gives Failure with
\* error "Resource not found"; every other status, the 2xx other than 200
\* included, gives Failure with error "HTTP {status}: {body}" and message
\* "Failed to retrieve FHIR data".
C7_StatusMapping ==
    \A w \in Workers :
        ResourceAnswered(w) =>
            /\ result[w].kind = "return"
            /\ (ResourceAnswerOf(w).status_code = 200
                  /\ ~JsonRaises(ResourceAnswerOf(w).json)) =>
                  /\ result[w].envelope.success
                  /\ result[w].envelope.data = ResourceAnswerOf(w).json.value
            /\ (ResourceAnswerOf(w).status_code = 200
                  /\ JsonRaises(ResourceAnswerOf(w).json)) =>
                  /\ ~result[w].envelope.success
                  /\ result[w].envelope.error = ResourceAnswerOf(w).json.raises.text
                  /\ result[w].envelope.message \in
                        {"Unexpected error occurred",
                         "Network error occurred while accessing FHIR API"}
            /\ NonOkStatusMapped(w)

\* the resource endpoint has answered 201 and the tool has failed
C7_Witness ==
    /\ ResourceAnswered(1)
    /\ ResourceAnswerOf(1).status_code = 201
    /\ ~result[1].envelope.success
    /\ result[1].envelope.error = "HTTP 201: Created"

\* C8: whenever the client id or the client secret is None or empty,
\* get_access_token raises the ValueError of the configuration error, issues
\* no HTTP request and leaves the cached token and its expiry as they are.
C8_MissingCredentials ==
    [][\A w \in Workers :
         ( /\ CallsGetAccessToken(w)
           /\ \/ FHIR_CLIENT_ID \in {None, ""}
              \/ FHIR_CLIENT_SECRET \in {None, ""} )
         => /\ token_result'[w] =
                  Raise([class |-> "ValueError",
                         text |-> "FHIR client ID and client secret must be provided via command line arguments"])
            /\ http'[w] = <<>>
            /\ ACCESS_TOKEN' = ACCESS_TOKEN
            /\ TOKEN_EXPIRES_AT' = TOKEN_EXPIRES_AT]_vars

\* get_access_token has raised for an empty secret beside a good client id,
\* with a token in the cache
C8_Witness ==
    /\ pc[1] = "done"
    /\ token_result[1] # Absent
    /\ token_result[1].kind = "raise"
    /\ token_result[1].exc.class = "ValueError"
    /\ FHIR_CLIENT_ID = "id1"
    /\ FHIR_CLIENT_SECRET = ""
    /\ http[1] = <<>>
    /\ Truthy(ACCESS_TOKEN)

\* get_access_token raised in the FHIR call worker w has ended
TokenFailed(w) ==
    /\ pc[w] = "done"
    /\ IsFhirCall(w)
    /\ token_result[w] # Absent
    /\ token_result[w].kind = "raise"

\* C9 as claimed: the error of missing credentials or of a rejected token
\* request leaves the tool invocation as a raised error, not as an envelope.
C9_TokenErrorsEscapeAsClaimed ==
    \A w \in Workers :
        TokenFailed(w) =>
            /\ result[w].kind = "raise"
            /\ result[w].exc = token_result[w].exc

\* C9, amended: the error of missing credentials or of a rejected token
\* request is raised by get_access_token and caught by make_fhir_request:
\* the tool returns a Failure envelope whose error is the text of the
\* exception, with message "Unexpected error occurred" for missing
\* credentials and "Network error occurred while accessing FHIR API" for a
\* rejected token request.  No FHIR tool invocation ends in a raised error:
\* every failure mode is returned as a Failure envelope.
C9_TokenErrorsReturned ==
    \A w \in Workers :
        /\ (pc[w] = "done" /\ IsFhirCall(w)) => result[w].kind = "return"
        /\ TokenFailed(w) =>
              /\ result[w].kind = "return"
              /\ ~result[w].envelope.success
              /\ result[w].envelope.error = token_result[w].exc.text
              /\ token_result[w].exc.class = "ValueError" =>
                    result[w].envelope.message = "Unexpected error occurred"
              /\ ( /\ answers[w] # <<>>
                   /\ answers[w][1].kind = "response"
                   /\ answers[w][1].status_code # 200 ) =>
                    result[w].envelope.message
                        = "Network error occurred while accessing FHIR API"

\* a FHIR tool called without credentials has returned a Failure envelope
C9_Witness ==
    /\ TokenFailed(1)
    /\ token_result[1].exc.class = "ValueError"
    /\ result[1].kind = "return"
    /\ result[1].envelope.message = "Unexpected error occurred"

\* the token endpoint has answered the POST of worker w
TokenAnswered(w) ==
    /\ http[w] # <<>>
    /\ http[w][1].method = "POST"
    /\ answers[w] # <<>>
    /\ answers[w][1].kind = "response"

\* C10: when the token endpoint answers the POST with a status other than
\* 200, get_access_token returns no token: it raises a RequestException
\* whose text is "Failed to obtain access token: Token request failed:
\* HTTP {status}: {body}", and no resource GET follows.
C10_TokenEndpointRejects ==
    \A w \in Workers :
        (TokenAnswered(w) /\ answers[w][1].status_code # 200) =>
            /\ token_result[w] =
                  Raise([class |-> "RequestException",
                         text |-> "Failed to obtain access token: Token request failed: HTTP "
                                    \o ToString(answers[w][1].status_code) \o ": "
                                    \o answers[w][1].text])
            /\ (answers[w][1].status_code = 401 /\ answers[w][1].text = "Unauthorized") =>
                  token_result[w].exc.text =
                      "Failed to obtain access token: Token request failed: HTTP 401: Unauthorized"
            /\ Gets(http[w]) = {}

\* the token endpoint has answered 201 with a token in the body, and
\* get_access_token has raised
C10_Witness ==
    /\ TokenAnswered(1)
    /\ answers[1][1].status_code = 201
    /\ ~JsonRaises(answers[1][1].json)
    /\ "access_token" \in DOMAIN answers[1][1].json.value
    /\ token_result[1].kind = "raise"

\* worker w's NPI call has ended
NpiDone(w) == pc[w] = "done" /\ IsNpiCall(w)

\* what the registry did to the GET of worker w
NpiAnswerOf(w) == answers[w][1]

\* the registry answered worker w's get_provider_details with 200 and a body
\* that parses as JSON
DetailsAnswered(w) ==
    /\ NpiDone(w)
    /\ call[w].tool = "get_provider_details"
    /\ NpiAnswerOf(w).kind = "response"
    /\ NpiAnswerOf(w).status_code = 200
    /\ ~JsonRaises(NpiAnswerOf(w).json)

\* C11: when the registry answers get_provider_details with 200 and a body
\* whose results array is empty, or that has no results key, the tool
\* returns exactly {success: false, error: "No provider found with the given
\* NPI number", message: "Provider not found"}, never a Success envelope.
C11_EmptyResultsNotFound ==
    \A w \in Workers :
        DetailsAnswered(w) =>
            LET data == NpiAnswerOf(w).json.value IN
            ("results" \notin DOMAIN data \/ data["results"] = <<>>) =>
                /\ result[w].kind = "return"
                /\ result[w].envelope =
                      [success |-> FALSE,
                       error   |-> "No provider found with the given NPI number",
                       message |-> "Provider not found"]

\* get_provider_details has ended on a 200 with an empty results array
C11_Witness ==
    /\ DetailsAnswered(1)
    /\ "results" \in DOMAIN NpiAnswerOf(1).json.value
    /\ NpiAnswerOf(1).json.value["results"] = <<>>
    /\ ~result[1].envelope.success

\* an outbound request that failed: it raised, or it was answered with a
\* status other than 200
FailedRequest(outcome) == outcome.kind = "raises" \/ outcome.status_code # 200

FailureReturned(outcome) ==
    /\ outcome # Absent
    /\ outcome.kind = "return"
    /\ ~outcome.envelope.success

\* C12: an NPI tool invocation issues at most one request, a GET; a FHIR
\* tool invocation issues at most one token POST and at most one resource
\* GET, the POST first and only in a call made while no valid token was
\* cached; a request that failed (a status other than 200, a timeout, a
\* transport exception) is the last request of its invocation, which has
\* ended with a Failure envelope by the step that received the failure.
C12_RequestBound ==
    /\ [](\A w \in Workers :
            /\ Len(answers[w]) <= Len(http[w])
            /\ IsNpiCall(w) => (Len(http[w]) <= 1 /\ Posts(http[w]) = {})
            /\ IsFhirCall(w) =>
                  /\ Cardinality(Posts(http[w])) <= 1
                  /\ Cardinality(Gets(http[w])) <= 1
                  /\ Posts(http[w]) \subseteq {1}
            /\ \A i \in DOMAIN answers[w] :
                  FailedRequest(answers[w][i]) =>
                      /\ i = Len(http[w])
                      /\ pc[w] = "done"
                      /\ FailureReturned(result[w]))
    /\ [][\A w \in Workers :
             (CallsGetAccessToken(w) /\ Posts(http'[w]) # {}) =>
                 ~(Truthy(ACCESS_TOKEN) /\ now < TOKEN_EXPIRES_AT - 300)]_vars

\* a FHIR invocation has ended after its token POST timed out: one request,
\* no GET, a Failure envelope
C12_Witness ==
    /\ pc[1] = "done"
    /\ IsFhirCall(1)
    /\ Len(http[1]) = 1
    /\ http[1][1].method = "POST"
    /\ answers[1] = <<Raises(Exc("Timeout", "Read timed out"))>>
    /\ FailureReturned(result[1])

\* a filter the gateway must get for an input that is not empty
FilterFor(key, value) == IF Falsy(value) THEN {} ELSE {<<key, value>>}

\* the filters a FHIR call must hand to the gateway: <<key, value>> pairs
ExpectedFilters(c) ==
    LET a == c.args IN
    CASE c.tool = "search_patients_by_name" ->
             FilterFor("given", a.given_name) \cup FilterFor("family", a.family_name)
      [] c.tool = "search_patients_by_identifier" ->
             {<<"identifier", a.identifier_type \o "|" \o a.identifier_value>>}
      [] c.tool = "search_patients_by_birthdate" -> {<<"birthdate", a.birthdate>>}
      [] c.tool = "search_patients_by_phone" -> {<<"phone", a.phone_number>>}
      [] c.tool = "search_patients_by_email" -> {<<"email", a.email>>}
      [] c.tool = "search_patients_by_address" ->
             FilterFor("address-postalcode", a.postal_code)
                 \cup FilterFor("address-city", a.city)
                 \cup FilterFor("address-state", a.state)
      [] c.tool = "get_patient_observations" -> {<<"subject", "Patient/" \o a.patient_id>>}
      [] c.tool = "get_patient_conditions" -> {<<"patient", "Patient/" \o a.patient_id>>}
      [] c.tool = "get_patient_medications" -> {<<"patient", "Patient/" \o a.patient_id>>}
      [] OTHER -> {}

\* the resource path a FHIR call must hand to the gateway
ExpectedPath(c) ==
    CASE c.tool = "get_patient_by_id" -> "Patient/" \o c.args.patient_id
      [] c.tool \in {"search_patients_by_name", "search_patients_by_identifier",
                     "search_patients_by_birthdate", "search_patients_by_phone",
                     "search_patients_by_email", "search_patients_by_address"} -> "Patient"
      [] c.tool = "get_patient_observations" -> "Observation"
      [] c.tool = "get_patient_conditions" -> "Condition"
      [] c.tool = "get_patient_medications" -> "MedicationRequest"
      [] c.tool = "get_fhir_capabilities" -> "metadata"

\* the filters of a gateway argument list: its params without _count
FiltersOf(args) ==
    IF Len(args) < 2 THEN {}
    ELSE {<<k, args[2][k]>> : k \in (DOMAIN args[2]) \ {"_count"}}

\* C13: every FHIR tool that passes validation hands the gateway its fixed
\* resource path (Patient/{id}, Patient, Observation, Condition,
\* MedicationRequest, metadata) and the stated filters, a key only for an
\* input that is not empty; get_patient_by_id and get_fhir_capabilities pass
\* no params; the one GET of the invocation goes to that path with these
\* params, and the envelope the tool returns is the one the gateway made of
\* the GET's outcome.
C13_ToolToGateway ==
    \A w \in Workers :
        (IsFhirCall(w) /\ gateway[w] # Absent) =>
            /\ gateway[w][1] = ExpectedPath(call[w])
            /\ FiltersOf(gateway[w]) = ExpectedFilters(call[w])
            /\ call[w].tool \in {"get_patient_by_id", "get_fhir_capabilities"}
                  => Len(gateway[w]) = 1
            /\ Cardinality(Gets(http[w])) <= 1
            /\ \A i \in Gets(http[w]) :
                  /\ http[w][i].url = "https://fhir-ehr.cerner.com/r4/ec2458f2-1e24-41c8-b71b-0e701af7583d/"
                                         \o ExpectedPath(call[w])
                  /\ http[w][i].params = GatewayParams(gateway[w])
            /\ (pc[w] = "done" /\ Gets(http[w]) # {}) =>
                  /\ result[w].kind = "return"
                  /\ LET get == answers[w][Len(answers[w])] IN
                     (get.kind = "response" /\ get.status_code = 200
                        /\ ~JsonRaises(get.json)) =>
                         result[w].envelope = [success |-> TRUE, data |-> get.json.value,
                                               message |-> "FHIR data retrieved successfully"]

\* get_patient_conditions has returned the gateway's Success envelope for
\* a GET of Condition with patient = Patient/123
C13_Witness ==
    /\ pc[1] = "done"
    /\ IsFhirCall(1)
    /\ call[1].tool = "get_patient_conditions"
    /\ gateway[1][1] = "Condition"
    /\ gateway[1][2]["patient"] = "Patient/123"
    /\ result[1].kind = "return"
    /\ result[1].envelope.success

\* the step in which the token POST of worker w ends
TokenPostEnds(w) == pc[w] = "await_token" /\ pc'[w] # "await_token"

\* what the token POST of worker w ended with, in that step
TokenPostOutcome(w) == answers'[w][1]

\* the step in which the token endpoint answers worker w's POST with 200
TokenPostAnswered200(w) ==
    /\ TokenPostEnds(w)
    /\ TokenPostOutcome(w).kind = "response"
    /\ TokenPostOutcome(w).status_code = 200

\* a token body the code can store: JSON with an access_token and with an
\* expires_in that is a number or absent
WellFormedTokenBody(json) ==
    IF JsonRaises(json) THEN FALSE
    ELSE IF "access_token" \notin DOMAIN json.value THEN FALSE
    ELSE IF "expires_in" \notin DOMAIN json.value THEN TRUE
    ELSE IsJsonNumber(json.value["expires_in"])

\* expires_in of a well-formed token body, 3600 when it is absent
ExpiresInOf(json) ==
    IF "expires_in" \in DOMAIN json.value THEN json.value["expires_in"].number ELSE 3600

\* the cache holds the token of the body and now + expires_in, and
\* get_access_token has returned the token it stored
TokenStored(w, json) ==
    /\ ACCESS_TOKEN' = json.value["access_token"]
    /\ TOKEN_EXPIRES_AT' = now + ExpiresInOf(json)
    /\ token_result'[w] = [kind |-> "return", token |-> ACCESS_TOKEN']

\* C14 as claimed: whenever the token endpoint returns 200, the cache holds
\* the returned access_token and TOKEN_EXPIRES_AT = now + expires_in (3600
\* when absent), and get_access_token returns the token it stored.
C14_Status200StoresAsClaimed ==
    [][\A w \in Workers :
         TokenPostAnswered200(w) =>
             /\ WellFormedTokenBody(TokenPostOutcome(w).json)
             /\ TokenStored(w, TokenPostOutcome(w).json)]_vars

\* C14, amended: when the token endpoint returns 200 with a JSON body that
\* has an access_token and whose expires_in is a number or absent, the cache
\* holds that access_token and TOKEN_EXPIRES_AT = now + expires_in (3600
\* when absent), get_access_token returns the token it stored, and the GET
\* carries it.  A 200 whose body does not parse or has no access_token
\* leaves the cache as it was and get_access_token raises; a 200 whose
\* expires_in is not a number replaces ACCESS_TOKEN, leaves TOKEN_EXPIRES_AT
\* as it was, and get_access_token raises a TypeError.
C14_RefreshStoresToken ==
    [][\A w \in Workers :
         TokenPostAnswered200(w) =>
             LET json == TokenPostOutcome(w).json IN
             /\ WellFormedTokenBody(json) =>
                   /\ TokenStored(w, json)
                   /\ http'[w][Len(http'[w])].headers.Authorization
                         = "Bearer " \o json.value["access_token"]
             /\ ~WellFormedTokenBody(json) =>
                   /\ token_result'[w].kind = "raise"
                   /\ Gets(http'[w]) = {}
                   /\ TOKEN_EXPIRES_AT' = TOKEN_EXPIRES_AT
                   /\ IF JsonRaises(json) THEN ACCESS_TOKEN' = ACCESS_TOKEN
                      ELSE IF "access_token" \notin DOMAIN json.value
                      THEN ACCESS_TOKEN' = ACCESS_TOKEN
                      ELSE /\ ACCESS_TOKEN' = json.value["access_token"]
                           /\ token_result'[w].exc.class = "TypeError"]_vars

\* a refresh answered without expires_in has just stored its token with an
\* expiry of now + 3600, and the GET is out
C14_Witness ==
    /\ pc[1] = "await_get"
    /\ Len(answers[1]) = 1
    /\ answers[1][1].kind = "response"
    /\ answers[1][1].status_code = 200
    /\ "expires_in" \notin DOMAIN answers[1][1].json.value
    /\ ACCESS_TOKEN = answers[1][1].json.value["access_token"]
    /\ TOKEN_EXPIRES_AT = now + 3600
    /\ token_result[1] = [kind |-> "return", token |-> ACCESS_TOKEN]

\* the messages of the NPI tools for a transport exception
NpiNetworkMessages ==
    {"Network error occurred while fetching NPI data",
     "Network error occurred while searching NPI database",
     "Network error occurred while fetching provider details"}

\* the rows that hold of every NPI tool as claimed: never a raised error, a
\* status other than 200, a transport exception, no authentication
NpiFailureRows(w) ==
    LET get == NpiAnswerOf(w)
        envelope == result[w].envelope
    IN  /\ result[w].kind = "return"
        /\ IsEnvelope(envelope)
        /\ (get.kind = "response" /\ get.status_code # 200) =>
              /\ ~envelope.success
              /\ envelope.error = "HTTP " \o ToString(get.status_code) \o ": " \o get.text
        /\ (get.kind = "response" /\ get.status_code = 404 /\ get.text = "Not Found") =>
              envelope.error = "HTTP 404: Not Found"
        /\ get.kind = "raises" =>
              /\ ~envelope.success
              /\ envelope.error = get.exc.text
              /\ envelope.message \in NpiNetworkMessages
        /\ DOMAIN http[w][1] = {"method", "url", "timeout"}
        /\ http[w][1].method = "GET"
        /\ token_result[w] = Absent

\* C15 as claimed: every NPI tool answers every HTTP 200 with a Success
\* envelope, besides the rows for the other outcomes.
C15_Every200SucceedsAsClaimed ==
    \A w \in Workers :
        NpiDone(w) =>
            /\ NpiFailureRows(w)
            /\ (NpiAnswerOf(w).kind = "response" /\ NpiAnswerOf(w).status_code = 200)
                  => result[w].envelope.success

\* C15, amended: no NPI tool ever raises.  A 200 whose body parses as JSON
\* gives a Success envelope, except that get_provider_details gives the
\* "Provider not found" Failure when the body has no result; a 200 whose
\* body does not parse gives a Failure with the text of the parse error and
\* the message "Unexpected error occurred" (the network message when the
\* parse error is a requests exception); any other status, 401 and 404
\* included, gives Failure with error "HTTP {status}: {body}"; a transport
\* exception gives Failure with a "Network error occurred..." message; and
\* the one request carries no credentials.
C15_NpiToolsNeverRaise ==
    \A w \in Workers :
        NpiDone(w) =>
            LET get == NpiAnswerOf(w)
                envelope == result[w].envelope
            IN  /\ NpiFailureRows(w)
                /\ (get.kind = "response" /\ get.status_code = 200) =>
                      IF JsonRaises(get.json)
                      THEN /\ ~envelope.success
                           /\ envelope.error = get.json.raises.text
                           /\ get.json.raises.class = "json.JSONDecodeError" =>
                                 envelope.message = "Unexpected error occurred"
                           /\ get.json.raises.class = "requests.JSONDecodeError" =>
                                 envelope.message \in NpiNetworkMessages
                      ELSE IF call[w].tool = "get_provider_details"
                              /\ ( "results" \notin DOMAIN get.json.value
                                     \/ get.json.value["results"] = <<>> )
                      THEN /\ ~envelope.success
                           /\ envelope.message = "Provider not found"
                      ELSE envelope.success

\* search_npi_by_name has returned a Failure for a 404, with the status and
\* the body in the error
C15_Witness ==
    /\ NpiDone(1)
    /\ call[1].tool = "search_npi_by_name"
    /\ NpiAnswerOf(1).kind = "response"
    /\ NpiAnswerOf(1).status_code = 404
    /\ result[1].envelope.error = "HTTP 404: Not Found"

\* the workers whose token POST is in flight
RefreshInFlight == {w \in Workers : pc[w] = "await_token"}

\* C16: under concurrent dispatch the check-then-refresh of get_access_token
\* is unguarded.  Whether a call posts depends on the credentials, the cache
\* and the clock alone: a call made with credentials while no token is
\* cached or now >= TOKEN_EXPIRES_AT - 300 posts a token request also while
\* the POST of another invocation is in flight, and a refresh that ends
\* writes the cache whatever the other invocations are doing.
C16_RefreshUnguarded ==
    [][\A w \in Workers :
         /\ ( /\ CallsGetAccessToken(w)
              /\ Truthy(FHIR_CLIENT_ID) /\ Truthy(FHIR_CLIENT_SECRET)
              /\ (~Truthy(ACCESS_TOKEN) \/ now >= TOKEN_EXPIRES_AT - 300) )
            => /\ pc'[w] = "await_token"
               /\ Len(http'[w]) = 1
               /\ http'[w][1].method = "POST"
               /\ RefreshInFlight' = RefreshInFlight \cup {w}
         /\ ( /\ TokenPostAnswered200(w)
              /\ WellFormedTokenBody(TokenPostOutcome(w).json) )
            => /\ ACCESS_TOKEN' = TokenPostOutcome(w).json.value["access_token"]
               /\ RefreshInFlight' = RefreshInFlight \ {w}]_vars

\* two token POSTs are in flight at the same time: both invocations passed
\* the expiry check before either stored a token
C16_Witness ==
    /\ RefreshInFlight = {1, 2}
    /\ Posts(http[1]) = {1} /\ answers[1] = <<>>
    /\ Posts(http[2]) = {1} /\ answers[2] = <<>>
    /\ http[1][1] = http[2][1]

\* the four list fields of the details record
DetailLists == {"addresses", "taxonomies", "identifiers", "other_names"}

\* C17: when the registry answers get_provider_details with 200 and a
\* non-empty results list, the tool returns a Success envelope whose data has
\* exactly the keys basic_info, addresses, taxonomies, identifiers and
\* other_names, all taken from results[0] and none from a later result:
\* basic_info carries its number, enumeration_type and basic fields, and
\* each of the four lists is that of results[0], or empty when results[0]
\* has none.
C17_DetailsFromFirstResult ==
    \A w \in Workers :
        DetailsAnswered(w) =>
            LET body == NpiAnswerOf(w).json.value IN
            ("results" \in DOMAIN body /\ Len(body["results"]) > 0) =>
                LET first == body["results"][1]
                    data  == result[w].envelope.data
                IN  /\ result[w].kind = "return"
                    /\ result[w].envelope.success
                    /\ DOMAIN data = {"basic_info"} \cup DetailLists
                    /\ \A k \in DetailLists :
                          data[k] = (IF k \in DOMAIN first THEN first[k] ELSE <<>>)
                    /\ "number" \in DOMAIN first => data.basic_info.npi = first["number"]
                    /\ "enumeration_type" \in DOMAIN first =>
                          data.basic_info.entity_type = first["enumeration_type"]
                    /\ ("basic" \in DOMAIN first /\ "status" \in DOMAIN first["basic"]) =>
                          data.basic_info.status = first["basic"]["status"]
                    /\ ("basic" \in DOMAIN first
                           /\ "organization_name" \in DOMAIN first["basic"]) =>
                          data.basic_info.organization_name
                              = first["basic"]["organization_name"]

\* the details of a response with two results are those of the first, an
\* organization
C17_Witness ==
    /\ DetailsAnswered(1)
    /\ "results" \in DOMAIN NpiAnswerOf(1).json.value
    /\ Len(NpiAnswerOf(1).json.value["results"]) = 2
    /\ result[1].envelope.success
    /\ result[1].envelope.data.basic_info.npi = "1987654321"
    /\ result[1].envelope.data.identifiers = <<"MEDICAID 77">>

\* the credentials are configured
CredentialsConfigured == Truthy(FHIR_CLIENT_ID) /\ Truthy(FHIR_CLIENT_SECRET)

\* C18: when the token POST is answered with a status other than 200 or
\* raises a transport exception, ACCESS_TOKEN and TOKEN_EXPIRES_AT keep the
\* values they had and get_access_token raises; and the next call of
\* get_access_token made with credentials (the first after the last token
\* POST failed) posts a token request again.
C18_FailedRefreshKeepsCache ==
    [][\A w \in Workers :
         /\ (TokenPostEnds(w) /\ FailedRequest(TokenPostOutcome(w))) =>
               /\ ACCESS_TOKEN' = ACCESS_TOKEN
               /\ TOKEN_EXPIRES_AT' = TOKEN_EXPIRES_AT
               /\ token_result'[w].kind = "raise"
               /\ refresh_failed'
         /\ (refresh_failed /\ CallsGetAccessToken(w) /\ CredentialsConfigured) =>
               /\ pc'[w] = "await_token"
               /\ Len(http'[w]) = 1
               /\ http'[w][1].method = "POST"
               /\ http'[w][1].url = TOKEN_ENDPOINT]_vars

\* after a refresh failed with a token still in the cache, the next call
\* has posted a token request again
C18_Witness ==
    /\ refresh_failed
    /\ Truthy(ACCESS_TOKEN)
    /\ pc[1] = "await_token"
    /\ Posts(http[1]) = {1}
    /\ answers[1] = <<>>

\* C19: in every FHIR tool invocation a resource GET is issued only after
\* get_access_token has returned a token in that invocation, and carries
\* that token; when a token POST was needed, the GET follows its 200.  When
\* get_access_token raises, no GET is issued and the tool returns a Failure
\* envelope with the text of the error: message "Unexpected error occurred"
\* for missing credentials, "Network error occurred while accessing FHIR
\* API" for a token request that was rejected or failed in transport.
C19_TokenBeforeResource ==
    \A w \in Workers :
        IsFhirCall(w) =>
            /\ \A i \in Gets(http[w]) :
                  /\ token_result[w] # Absent
                  /\ token_result[w].kind = "return"
                  /\ http[w][i].headers.Authorization = "Bearer " \o token_result[w].token
                  /\ Posts(http[w]) # {} =>
                        /\ i = 2
                        /\ answers[w][1].kind = "response"
                        /\ answers[w][1].status_code = 200
            /\ (token_result[w] # Absent /\ token_result[w].kind = "raise") =>
                  /\ Gets(http[w]) = {}
                  /\ pc[w] = "done"
                  /\ FailureReturned(result[w])
                  /\ result[w].envelope.error = token_result[w].exc.text
                  /\ http[w] = <<>> =>
                        /\ token_result[w].exc.class = "ValueError"
                        /\ result[w].envelope.message = "Unexpected error occurred"
                  /\ (http[w] # <<>> /\ FailedRequest(answers[w][1])) =>
                        result[w].envelope.message
                            = "Network error occurred while accessing FHIR API"

\* the token endpoint has rejected the POST with 401: the invocation has
\* ended with the network Failure envelope and without a GET
C19_Witness ==
    /\ pc[1] = "done"
    /\ IsFhirCall(1)
    /\ token_result[1] # Absent
    /\ token_result[1].kind = "raise"
    /\ Len(http[1]) = 1
    /\ answers[1][1].kind = "response"
    /\ answers[1][1].status_code = 401
    /\ result[1].envelope.message = "Network error occurred while accessing FHIR API"

\* the step in which the resource GET of worker w is answered with a status
\* other than 200
ResourceRejected(w) ==
    /\ pc[w] = "await_get"
    /\ pc'[w] = "done"
    /\ answers'[w][Len(answers'[w])].kind = "response"
    /\ answers'[w][Len(answers'[w])].status_code # 200

\* C20: when the resource endpoint answers the GET with 401 or any other
\* status than 200, ACCESS_TOKEN and TOKEN_EXPIRES_AT are unchanged and still
\* hold the token that was just sent; so every later invocation made with
\* credentials while now < TOKEN_EXPIRES_AT - 300 issues no token POST and
\* sends the GET with the same bearer token again.
C20_RejectionKeepsToken ==
    [][\A w \in Workers :
         /\ ResourceRejected(w) =>
               /\ ACCESS_TOKEN' = ACCESS_TOKEN
               /\ TOKEN_EXPIRES_AT' = TOKEN_EXPIRES_AT
               /\ rejected_bearer' = "Bearer " \o ACCESS_TOKEN'
               /\ rejected_bearer' = http[w][Len(http[w])].headers.Authorization
         /\ ( /\ rejected_bearer # None
              /\ CallsGetAccessToken(w)
              /\ CredentialsConfigured
              /\ now < TOKEN_EXPIRES_AT - 300 ) =>
               /\ pc'[w] = "await_get"
               /\ Len(http'[w]) = 1
               /\ http'[w][1].method = "GET"
               /\ http'[w][1].headers.Authorization = rejected_bearer]_vars

\* after the resource endpoint answered 401, a later invocation has sent
\* its GET with the rejected token, and no POST
C20_Witness ==
    /\ rejected_bearer # None
    /\ pc[1] = "await_get"
    /\ answers[1] = <<>>
    /\ Len(http[1]) = 1
    /\ http[1][1].headers.Authorization = rejected_bearer
    /\ now < TOKEN_EXPIRES_AT - 300

\* C21: the credential check comes before the cache check.  A call of
\* get_access_token made while the client id or the client secret is None or
\* empty raises the configuration error also when a token is cached whose
\* expiry is more than 300 s away: the token is not returned, no request is
\* issued, the cache stays as it is and the tool returns the Failure
\* envelope of the error.  In no state has get_access_token returned a token
\* to an invocation while the credentials are missing.
C21_CredentialCheckFirst ==
    /\ [][\A w \in Workers :
             ( /\ CallsGetAccessToken(w)
               /\ ~CredentialsConfigured
               /\ Truthy(ACCESS_TOKEN)
               /\ now < TOKEN_EXPIRES_AT - 300 )
             => /\ token_result'[w] =
                      Raise([class |-> "ValueError",
                             text |-> "FHIR client ID and client secret must be provided via command line arguments"])
                /\ http'[w] = <<>>
                /\ pc'[w] = "done"
                /\ FailureReturned(result'[w])
                /\ result'[w].envelope.error = token_result'[w].exc.text
                /\ ACCESS_TOKEN' = ACCESS_TOKEN
                /\ TOKEN_EXPIRES_AT' = TOKEN_EXPIRES_AT]_vars
    /\ [](\A w \in Workers :
            (token_result[w] # Absent /\ token_result[w].kind = "return")
                => CredentialsConfigured)

\* get_access_token has raised the configuration error for a missing client
\* id while a token is cached that is valid for more than 300 s
C21_Witness ==
    /\ pc[1] = "done"
    /\ token_result[1] # Absent
    /\ token_result[1].kind = "raise"
    /\ token_result[1].exc.class = "ValueError"
    /\ ~Truthy(FHIR_CLIENT_ID)
    /\ Truthy(ACCESS_TOKEN)
    /\ now < TOKEN_EXPIRES_AT - 300
    /\ http[1] = <<>>

\* the tokens the token endpoint hands out with expires_in <= 300
ShortLivedTokens ==
    {j.access_token : j \in {k \in LifetimeTokenJsons : k.expires_in.number <= 300}}

\* C22: a token the token endpoint returned with expires_in <= 300 is never
\* reused.  From the step that stores it on, as long as it is the cached
\* token, now >= TOKEN_EXPIRES_AT - 300; so every call of get_access_token
\* made with credentials while it is cached (every following FHIR tool
\* invocation that reaches the gateway) issues a new token POST and sends no
\* GET with the cached token.
C22_ShortLivedNeverReused ==
    /\ [][\A w \in Workers :
             /\ ( /\ TokenPostAnswered200(w)
                  /\ TokenPostOutcome(w).json.value["expires_in"].number <= 300 )
                => /\ ACCESS_TOKEN' \in ShortLivedTokens
                   /\ now' >= TOKEN_EXPIRES_AT' - 300
             /\ ( /\ CallsGetAccessToken(w)
                  /\ CredentialsConfigured
                  /\ ACCESS_TOKEN \in ShortLivedTokens )
                => /\ pc'[w] = "await_token"
                   /\ Len(http'[w]) = 1
                   /\ http'[w][1].method = "POST"
                   /\ http'[w][1].url = TOKEN_ENDPOINT]_vars
    /\ [](ACCESS_TOKEN \in ShortLivedTokens => now >= TOKEN_EXPIRES_AT - 300)

\* with a token of expires_in = 299 in the cache, stored by an earlier
\* invocation, the next invocation has posted a token request again
C22_Witness ==
    /\ ACCESS_TOKEN = "tok299"
    /\ TOKEN_EXPIRES_AT = now + 299
    /\ pc[1] = "await_token"
    /\ Posts(http[1]) = {1}
    /\ answers[1] = <<>>

=============================================================================
